---- MODULE Spec2Model ----
(***************************************************************************)
(* Model of the GIF colour remapper of src/src/App.tsx: the React state of *)
(* the App component, its event handlers (file upload, colour selection,   *)
(* mapping update / removal, Reset All) and the pure helpers they call     *)
(* (colour keys, hex validation and parsing, palette extraction, frame     *)
(* remapping).                                                             *)
(*                                                                         *)
(* Conventions.  A JavaScript string is a sequence of one-character        *)
(* strings.  A JavaScript array index i (0-based) is position i+1 of the   *)
(* TLA+ sequence.  An RGB triple is an object [val, obj]: its three        *)
(* components and the allocation it lives in; every frame carries a `heap` *)
(* field naming the allocation of the frame object and of each buffer.     *)
(* A function that can throw returns [ok |-> FALSE, ...].                  *)
(***************************************************************************)
EXTENDS Integers, Sequences, FiniteSets, TLC

VARIABLES
    frames,             \* useState<GifFrame[]>            (App.tsx:46)
    isLoading,          \* useState(false)                 (App.tsx:47)
    error,              \* useState<string | null>         (App.tsx:48)
    currentFrameIndex,  \* useState(0)                     (App.tsx:49)
    isPlaying,          \* useState(false)                 (App.tsx:50)
    colorPalette,       \* useState<ColorCount[]>          (App.tsx:53)
    colorMappings,      \* useState<ColorMapping[]>        (App.tsx:56)
    selectedColor,      \* useState<ColorCount | null>     (App.tsx:57)
    remappedFrames,     \* useState<GifFrame[]>            (App.tsx:58)
    pending,            \* the file whose parseGifFile is suspended at its await
    call,               \* the handler that ran last, with its argument
    console,            \* what the handler that ran last wrote to the console
    args,               \* inputs of a direct call of a pure helper
    ret,                \* result of that call
    hist,               \* history: the select / update / remove sequence under way
    zoomLevel,          \* useState(3)                     (App.tsx:51)
    anim,               \* the closure of the animation effect (App.tsx:286-318)
    canvas              \* what the display canvases show            (App.tsx:61-67)

vars == << frames, isLoading, error, currentFrameIndex, isPlaying, colorPalette,
           colorMappings, selectedColor, remappedFrames, pending, call, console,
           args, ret, hist, zoomLevel, anim, canvas >>

-----------------------------------------------------------------------------
(* Strings and colours *)

\* the decimal digits, as template literals print them
DigitChars == << "0", "1", "2", "3", "4", "5", "6", "7", "8", "9" >>

RECURSIVE Dec(_)
\* `${n}` for a non-negative integer n
Dec(n) == IF n < 10 THEN << DigitChars[n + 1] >>
          ELSE Dec(n \div 10) \o << DigitChars[(n % 10) + 1] >>

\* `rgb(${rgb[0]},${rgb[1]},${rgb[2]})`
colorKey(rgb) ==
    << "r", "g", "b", "(" >> \o Dec(rgb.val[1]) \o << "," >> \o Dec(rgb.val[2])
        \o << "," >> \o Dec(rgb.val[3]) \o << ")" >>

\* the class [a-f\d] under the i flag, with the value parseInt(_, 16) gives
HexValue ==
    [c \in { "0", "1", "2", "3", "4", "5", "6", "7", "8", "9",
             "a", "b", "c", "d", "e", "f", "A", "B", "C", "D", "E", "F" } |->
        CASE c = "0" -> 0  [] c = "1" -> 1  [] c = "2" -> 2  [] c = "3" -> 3
          [] c = "4" -> 4  [] c = "5" -> 5  [] c = "6" -> 6  [] c = "7" -> 7
          [] c = "8" -> 8  [] c = "9" -> 9
          [] c \in { "a", "A" } -> 10  [] c \in { "b", "B" } -> 11
          [] c \in { "c", "C" } -> 12  [] c \in { "d", "D" } -> 13
          [] c \in { "e", "E" } -> 14  [] c \in { "f", "F" } -> 15]

IsHexDigit(c) == c \in DOMAIN HexValue

\* parseInt(hi + lo, 16)
parseInt16(hi, lo) == 16 * HexValue[hi] + HexValue[lo]

\* hex.startsWith("#") ? hex : `#${hex}`
WithHash(s) == IF Len(s) > 0 /\ s[1] = "#" THEN s ELSE << "#" >> \o s

\* s matches /^#?X{n}$/i where X is a hex digit
MatchesHex(s, n) ==
    LET digits == IF Len(s) > 0 /\ s[1] = "#" THEN Tail(s) ELSE s
    IN  Len(digits) = n /\ \A i \in 1..n : IsHexDigit(digits[i])

\* the null a string-valued function returns
null == << >>

\* an RGB triple allocated by `who`
Rgb(r, g, b, who) == [val |-> << r, g, b >>, obj |-> who]

hexToRgb_single(hex) ==
    LET formattedHex == WithHash(hex)
    IN  IF Len(formattedHex) = 4
        THEN IF MatchesHex(formattedHex, 3)
             THEN Rgb(HexValue[formattedHex[2]], HexValue[formattedHex[3]],
                      HexValue[formattedHex[4]], "hexToRgb")
             ELSE Rgb(0, 0, 0, "hexToRgb")
        ELSE IF MatchesHex(formattedHex, 6)
             THEN Rgb(parseInt16(formattedHex[2], formattedHex[3]),
                      parseInt16(formattedHex[4], formattedHex[5]),
                      parseInt16(formattedHex[6], formattedHex[7]), "hexToRgb")
             ELSE Rgb(0, 0, 0, "hexToRgb")

hexToRgb(hex) ==
    LET formattedHex == WithHash(hex)
    IN  IF Len(formattedHex) = 4
        THEN IF MatchesHex(formattedHex, 3)
             THEN Rgb(parseInt16(formattedHex[2], formattedHex[2]),
                      parseInt16(formattedHex[3], formattedHex[3]),
                      parseInt16(formattedHex[4], formattedHex[4]), "hexToRgb")
             ELSE Rgb(0, 0, 0, "hexToRgb")
        ELSE IF MatchesHex(formattedHex, 6)
             THEN Rgb(parseInt16(formattedHex[2], formattedHex[3]),
                      parseInt16(formattedHex[4], formattedHex[5]),
                      parseInt16(formattedHex[6], formattedHex[7]), "hexToRgb")
             ELSE Rgb(0, 0, 0, "hexToRgb")

validateHexColor_undoubled(color) ==
    IF ~(MatchesHex(color, 3) \/ MatchesHex(color, 6)) THEN null
    ELSE WithHash(color)

validateHexColor(color) ==
    IF ~(MatchesHex(color, 3) \/ MatchesHex(color, 6)) THEN null
    ELSE LET formattedColor == WithHash(color)
         IN  IF Len(formattedColor) = 4
             THEN << "#", formattedColor[2], formattedColor[2], formattedColor[3],
                     formattedColor[3], formattedColor[4], formattedColor[4] >>
             ELSE formattedColor

-----------------------------------------------------------------------------
(* Frames *)

\* transparentIndex?: number, when the frame has none
undefined == -1

\* a pixel index with an entry in the colour table
InTable(colorTable, pixelIndex) == pixelIndex >= 0 /\ pixelIndex < Len(colorTable)

\* colorTable[colorIndex] || [0, 0, 0]
ColorOrBlack(colorTable, colorIndex) ==
    IF InTable(colorTable, colorIndex) THEN colorTable[colorIndex + 1]
    ELSE Rgb(0, 0, 0, "literal")

RECURSIVE DecoderPatch(_, _, _)
\* the patch decompressFrames(gif, true) builds: four bytes per pixel, the
\* colour-table entry (black when there is none), alpha 0 for the transparent
\* index and 255 otherwise
DecoderPatch(pixels, colorTable, transparentIndex) ==
    IF pixels = << >> THEN << >>
    ELSE LET colorIndex == Head(pixels)
             color == ColorOrBlack(colorTable, colorIndex)
         IN  << color.val[1], color.val[2], color.val[3],
                IF colorIndex # transparentIndex THEN 255 ELSE 0 >>
             \o DecoderPatch(Tail(pixels), colorTable, transparentIndex)

\* a frame as decompressFrames(gif, true) returns it: every buffer allocated by
\* the decoder, the patch pre-expanded from pixels, colour table and transparency
GifFrame(width, height, left, delay, pixels, table, transparentIndex) ==
    LET colorTable == [i \in 1..Len(table) |->
                          Rgb(table[i][1], table[i][2], table[i][3], "decoder")]
    IN  [dims |-> [width |-> width, height |-> height, top |-> 0, left |-> left],
         delay |-> delay,
         disposalType |-> 1,
         patch |-> DecoderPatch(pixels, colorTable, transparentIndex),
         pixels |-> pixels,
         transparentIndex |-> transparentIndex,
         colorTable |-> colorTable,
         heap |-> [frame |-> "decoder", patch |-> "decoder", pixels |-> "decoder",
                   colorTable |-> "decoder", dims |-> "decoder"]]

\* { ...frame, colorTable: [...frame.colorTable], patch: new Uint8ClampedArray(frame.patch) }
CopyFrame(frame) ==
    [frame EXCEPT !.heap = [@ EXCEPT !.frame = "copy", !.colorTable = "copy",
                                     !.patch = "copy"]]

\* frames.map((frame) => ({ ...frame, colorTable: [...], patch: new ... }))
CopyFrames(fs) == [i \in 1..Len(fs) |-> CopyFrame(fs[i])]

-----------------------------------------------------------------------------
(* Palette extraction *)

\* position of the Map entry with this key, 0 when colorMap.has(key) is false
MapIndex(colorMap, key) ==
    IF \E j \in 1..Len(colorMap) : colorMap[j].color = key
    THEN CHOOSE j \in 1..Len(colorMap) : colorMap[j].color = key
    ELSE 0

\* CountPixel without the check for the transparent index
CountPixel_all(acc, frame, pixelIndex) ==
    IF ~InTable(frame.colorTable, pixelIndex) THEN [acc EXCEPT !.ok = FALSE]
    ELSE LET rgb == frame.colorTable[pixelIndex + 1]
             key == colorKey(rgb)
             j   == MapIndex(acc.val, key)
         IN  IF j # 0
             THEN [acc EXCEPT !.val[j] =
                      [color |-> key, count |-> acc.val[j].count + 1, rgb |-> rgb]]
             ELSE [acc EXCEPT !.val =
                      Append(@, [color |-> key, count |-> 1, rgb |-> rgb])]

\* the body of pixels.forEach in extractColorPalette; acc.ok turns FALSE when
\* rgb[0] is read of an undefined rgb (TypeError)
CountPixel(acc, frame, pixelIndex) ==
    IF pixelIndex = frame.transparentIndex THEN acc
    ELSE IF ~InTable(frame.colorTable, pixelIndex) THEN [acc EXCEPT !.ok = FALSE]
    ELSE LET rgb == frame.colorTable[pixelIndex + 1]
             key == colorKey(rgb)
             j   == MapIndex(acc.val, key)
         IN  IF j # 0
             THEN [acc EXCEPT !.val[j] =
                      [color |-> key, count |-> acc.val[j].count + 1, rgb |-> rgb]]
             ELSE [acc EXCEPT !.val =
                      Append(@, [color |-> key, count |-> 1, rgb |-> rgb])]

RECURSIVE CountPixels(_, _, _)
\* pixels.forEach over pixels i..end of the frame
CountPixels(acc, frame, i) ==
    IF ~acc.ok \/ i > Len(frame.pixels) THEN acc
    ELSE CountPixels(CountPixel(acc, frame, frame.pixels[i]), frame, i + 1)

RECURSIVE CountFrames(_, _, _)
\* gifFrames.forEach over frames k..end
CountFrames(acc, gifFrames, k) ==
    IF ~acc.ok \/ k > Len(gifFrames) THEN acc
    ELSE CountFrames(CountPixels(acc, gifFrames[k], 1), gifFrames, k + 1)

\* e placed behind every entry whose count is not smaller (the sort is stable)
InsertByCount(sorted, e) ==
    LET n == Cardinality({ j \in 1..Len(sorted) : sorted[j].count >= e.count })
    IN  SubSeq(sorted, 1, n) \o << e >> \o SubSeq(sorted, n + 1, Len(sorted))

RECURSIVE SortByCount(_)
\* .sort((a, b) => b.count - a.count)
SortByCount(entries) ==
    IF entries = << >> THEN << >>
    ELSE InsertByCount(SortByCount(SubSeq(entries, 1, Len(entries) - 1)),
                       entries[Len(entries)])

\* the palette extractColorPalette passes to setColorPalette, or ok = FALSE when
\* it throws before reaching it
extractColorPalette(gifFrames) ==
    LET colorMap == CountFrames([ok |-> TRUE, val |-> << >>], gifFrames, 1)
    IN  IF colorMap.ok THEN [ok |-> TRUE, val |-> SortByCount(colorMap.val)]
        ELSE colorMap

-----------------------------------------------------------------------------
(* Frame remapping *)

\* mappings.find((m) => m.originalColor === key): its position, 0 when undefined
FindMapping(mappings, key) ==
    IF \E j \in 1..Len(mappings) : mappings[j].originalColor = key
    THEN CHOOSE j \in 1..Len(mappings) :
            /\ mappings[j].originalColor = key
            /\ \A k \in 1..(j - 1) : mappings[k].originalColor # key
    ELSE 0

\* RemapPixel reading the colour of the pixel from the table being rewritten:
\* a slot already remapped is looked up again, which chains the mappings
RemapPixel_chained(acc, frame, mappings, pixelIndex) ==
    IF pixelIndex = frame.transparentIndex THEN acc
    ELSE IF ~InTable(frame.colorTable, pixelIndex) THEN [acc EXCEPT !.ok = FALSE]
    ELSE LET originalRgb == acc.val[pixelIndex + 1]
             j == FindMapping(mappings, colorKey(originalRgb))
         IN  IF j # 0 THEN [acc EXCEPT !.val[pixelIndex + 1] = mappings[j].newRgb]
             ELSE acc

\* the body of frame.pixels.forEach in remapFramesColors; acc.ok turns FALSE
\* when originalRgb[0] is read of an undefined originalRgb (TypeError)
RemapPixel(acc, frame, mappings, pixelIndex) ==
    IF pixelIndex = frame.transparentIndex THEN acc
    ELSE IF ~InTable(frame.colorTable, pixelIndex) THEN [acc EXCEPT !.ok = FALSE]
    ELSE LET originalRgb == frame.colorTable[pixelIndex + 1]
             j == FindMapping(mappings, colorKey(originalRgb))
         IN  IF j # 0 THEN [acc EXCEPT !.val[pixelIndex + 1] = mappings[j].newRgb]
             ELSE acc

RECURSIVE RemapPixels(_, _, _, _)
\* frame.pixels.forEach over pixels i..end: acc.val is newColorTable
RemapPixels(acc, frame, mappings, i) ==
    IF ~acc.ok \/ i > Len(frame.pixels) THEN acc
    ELSE RemapPixels(RemapPixel(acc, frame, mappings, frame.pixels[i]),
                     frame, mappings, i + 1)

RECURSIVE RegeneratePatch_opaque(_, _, _)
\* RegeneratePatch writing alpha 255 for every pixel
RegeneratePatch_opaque(pixels, newColorTable, transparentIndex) ==
    IF pixels = << >> THEN << >>
    ELSE LET color == ColorOrBlack(newColorTable, Head(pixels))
         IN  << color.val[1], color.val[2], color.val[3], 255 >>
             \o RegeneratePatch_opaque(Tail(pixels), newColorTable, transparentIndex)

RECURSIVE RegeneratePatch(_, _, _)
\* the for loop of remapFramesColors that fills newPatch from newColorTable
RegeneratePatch(pixels, newColorTable, transparentIndex) ==
    IF pixels = << >> THEN << >>
    ELSE LET colorIndex == Head(pixels)
             color == ColorOrBlack(newColorTable, colorIndex)
         IN  << color.val[1], color.val[2], color.val[3],
                IF colorIndex # transparentIndex THEN 255 ELSE 0 >>
             \o RegeneratePatch(Tail(pixels), newColorTable, transparentIndex)

\* the callback of originalFrames.map in remapFramesColors
RemapFrame(frame, mappings) ==
    LET newColorTable == RemapPixels([ok |-> TRUE, val |-> frame.colorTable],
                                     frame, mappings, 1)
    IN  IF ~newColorTable.ok THEN [ok |-> FALSE, val |-> frame]
        ELSE [ok  |-> TRUE,
              val |-> [frame EXCEPT
                         !.colorTable = newColorTable.val,
                         !.patch = RegeneratePatch(frame.pixels, newColorTable.val,
                                                   frame.transparentIndex),
                         !.heap = [@ EXCEPT !.frame = "remap", !.colorTable = "remap",
                                            !.patch = "remap"]]]

\* remapFramesColors(originalFrames, mappings): the frames it returns, or
\* ok = FALSE when it throws
remapFramesColors(originalFrames, mappings) ==
    IF Len(mappings) = 0 THEN [ok |-> TRUE, val |-> originalFrames]
    ELSE LET each == [k \in 1..Len(originalFrames) |->
                         RemapFrame(originalFrames[k], mappings)]
         IN  IF \A k \in 1..Len(originalFrames) : each[k].ok
             THEN [ok |-> TRUE, val |-> [k \in 1..Len(originalFrames) |-> each[k].val]]
             ELSE [ok |-> FALSE, val |-> << >>]

-----------------------------------------------------------------------------
(* The mapping table *)

\* the placeholder handleColorSelect creates: the colour mapped to itself
NewMapping(colorInfo) ==
    [originalColor |-> colorInfo.color, originalRgb |-> colorInfo.rgb,
     newColor |-> colorInfo.color, newRgb |-> colorInfo.rgb]

\* HasMapping that never finds the entry
HasMapping_never(mappings, color) == FALSE

\* colorMappings.find((mapping) => mapping.originalColor === color) is defined
HasMapping(mappings, color) ==
    \E j \in 1..Len(mappings) : mappings[j].originalColor = color

\* a map(...) that gives every entry the new colour
UpdateMappings_all(mappings, color, validatedColor, newRgb) ==
    [j \in 1..Len(mappings) |->
        [mappings[j] EXCEPT !.newColor = validatedColor, !.newRgb = newRgb]]

\* colorMappings.map(...) of updateColorMapping
UpdateMappings(mappings, color, validatedColor, newRgb) ==
    [j \in 1..Len(mappings) |->
        IF mappings[j].originalColor = color
        THEN [mappings[j] EXCEPT !.newColor = validatedColor, !.newRgb = newRgb]
        ELSE mappings[j]]

RECURSIVE FilterMappings(_, _)
\* colorMappings.filter((mapping) => mapping.originalColor !== originalColor)
FilterMappings(mappings, originalColor) ==
    IF mappings = << >> THEN << >>
    ELSE IF Head(mappings).originalColor # originalColor
         THEN << Head(mappings) >> \o FilterMappings(Tail(mappings), originalColor)
         ELSE FilterMappings(Tail(mappings), originalColor)

-----------------------------------------------------------------------------
(* Inputs: the files a user uploads and the text typed into the colour inputs *)

Red   == << 255, 0, 0 >>
Green == << 0, 255, 0 >>
Grey  == << 1, 2, 3 >>

\* the 2x2 single-frame animation with two colours and no transparency
Gif2x2 == << GifFrame(2, 2, 0, 100, << 0, 0, 1, 1 >>, << Red, Green >>, undefined) >>

\* two frames with their own colour tables; green is the transparent slot of the
\* first frame and a visible colour of the second
GifTwoFrames ==
    << GifFrame(3, 1, 0, 100, << 0, 1, 1 >>, << Red, Green >>, 1),
       GifFrame(3, 1, 1, 50, << 0, 1, 0 >>, << Green, Grey >>, undefined) >>

\* a frame whose second pixel has no colour-table entry
GifShortTable == << GifFrame(2, 1, 0, 100, << 0, 1 >>, << Red >>, undefined) >>

\* a decoded animation without frames
GifNoFrames == << >>

Animations == { Gif2x2, GifTwoFrames, GifShortTable, GifNoFrames }

\* event.target.files[0]: its MIME type and what the decoder makes of its bytes
Files ==
    { [type |-> "image/gif", decoded |-> [ok |-> TRUE, val |-> g]] : g \in Animations }
    \cup { [type |-> "image/gif", decoded |-> [ok |-> FALSE, val |-> << >>]],
           [type |-> "image/png", decoded |-> [ok |-> FALSE, val |-> << >>]] }

\* e.target.value of the colour picker and of the text input
HexInputs == { << "#", "0", "0", "0", "0", "f", "f" >>,
               << "0", "F", "0" >>,
               << "#", "1", "2", "3", "4" >> }

-----------------------------------------------------------------------------
(* The component *)

\* no select / update / remove sequence is under way
NoSequence == [stage |-> "none", color |-> << >>, before |-> << >>]

\* the animation effect when it has returned early or has not run: no callback of
\* it is requested
NoAnimation ==
    [scheduled |-> FALSE, frames |-> << >>, remappedFrames |-> << >>,
     currentFrameIndex |-> 0,
     lastTimestamp |-> 0, accumulatedTime |-> 0, due |-> FALSE, late |-> FALSE]

\* the display canvases before anything is drawn: the index and the patches of the
\* frame last composited onto the original and the remapped canvas, and whether
\* the canvas-size effect has yet to run
BlankCanvas == [frameIndex |-> -1, original |-> << >>, remapped |-> << >>, due |-> FALSE]

\* the history after updateColorMapping: the sequence goes on when the colour just
\* selected got a new colour
HistAfterUpdate(validatedColor) ==
    IF hist.stage = "selected" /\ validatedColor # null
    THEN [hist EXCEPT !.stage = "updated"] ELSE NoSequence

Init ==
    /\ frames = << >>
    /\ isLoading = FALSE
    /\ error = null
    /\ currentFrameIndex = 0
    /\ isPlaying = FALSE
    /\ colorPalette = << >>
    /\ colorMappings = << >>
    /\ selectedColor = null
    /\ remappedFrames = << >>
    /\ pending = << >>
    /\ call = [op |-> "mount", arg |-> << >>]
    /\ console = << >>
    /\ args = << >>
    /\ ret = << >>
    /\ hist = NoSequence
    /\ zoomLevel = 3
    /\ anim = NoAnimation
    /\ canvas = BlankCanvas

\* handleFileChange, with parseGifFile up to its first await; one upload is in
\* flight at a time
handleFileChange(file) ==
    /\ pending = << >>
    /\ call' = [op |-> "handleFileChange", arg |-> << >>]
    /\ console' = << >>
    /\ IF file.type = "image/gif"
       THEN /\ isLoading' = TRUE
            /\ error' = null
            /\ pending' = << file >>
       ELSE /\ error' = << "Please upload a GIF file" >>
            /\ UNCHANGED << isLoading, pending >>
    /\ hist' = NoSequence
    /\ UNCHANGED << frames, currentFrameIndex, isPlaying, colorPalette, colorMappings,
                    selectedColor, remappedFrames, args, ret, zoomLevel >>

\* parseGifFile publishing the (empty) frames of a failed decode before reporting it
parseGifFile_publishFirst ==
    /\ pending # << >>
    /\ pending' = << >>
    /\ call' = [op |-> "parseGifFile", arg |-> << >>]
    /\ isLoading' = FALSE
    /\ hist' = NoSequence
    /\ UNCHANGED << args, ret, zoomLevel >>
    /\ LET decoded == pending[1].decoded
           palette == extractColorPalette(decoded.val)
       IN  /\ frames' = decoded.val
           /\ currentFrameIndex' = 0
           /\ colorMappings' = << >>
           /\ selectedColor' = null
           /\ remappedFrames' = CopyFrames(decoded.val)
           /\ IF decoded.ok /\ palette.ok
              THEN /\ colorPalette' = palette.val
                   /\ isPlaying' = IF Len(decoded.val) > 0 THEN TRUE ELSE isPlaying
                   /\ console' = << >>
                   /\ UNCHANGED error
              ELSE /\ error' = << "Failed to parse GIF file" >>
                   /\ console' = << "error" >>
                   /\ UNCHANGED << colorPalette, isPlaying >>

\* parseGifFile from its await on: decode, publish, extract the palette; the
\* state updates queued before a throw are applied with those of the catch block
parseGifFile ==
    /\ pending # << >>
    /\ pending' = << >>
    /\ call' = [op |-> "parseGifFile", arg |-> << >>]
    /\ isLoading' = FALSE
    /\ hist' = NoSequence
    /\ UNCHANGED << args, ret, zoomLevel >>
    /\ LET decoded == pending[1].decoded
           palette == extractColorPalette(decoded.val)
       IN  IF ~decoded.ok
           THEN /\ error' = << "Failed to parse GIF file" >>
                /\ console' = << "error" >>
                /\ UNCHANGED << frames, currentFrameIndex, isPlaying, colorPalette,
                                colorMappings, selectedColor, remappedFrames >>
           ELSE /\ frames' = decoded.val
                /\ currentFrameIndex' = 0
                /\ colorMappings' = << >>
                /\ selectedColor' = null
                /\ remappedFrames' = CopyFrames(decoded.val)
                /\ IF palette.ok
                   THEN /\ colorPalette' = palette.val
                        /\ isPlaying' = IF Len(decoded.val) > 0 THEN TRUE ELSE isPlaying
                        /\ console' = << >>
                        /\ UNCHANGED error
                   ELSE /\ error' = << "Failed to parse GIF file" >>
                        /\ console' = << "error" >>
                        /\ UNCHANGED << colorPalette, isPlaying >>

\* handleColorSelect, from a palette swatch or from an entry of the mapping list
handleColorSelect(colorInfo) ==
    /\ Len(frames) > 0
    /\ call' = [op |-> "handleColorSelect", arg |-> colorInfo.color]
    /\ console' = << >>
    /\ selectedColor' = << colorInfo >>
    /\ hist' = IF HasMapping(colorMappings, colorInfo.color) THEN NoSequence
               ELSE [stage |-> "selected", color |-> colorInfo.color,
                     before |-> colorMappings]
    /\ colorMappings' = IF HasMapping(colorMappings, colorInfo.color) THEN colorMappings
                        ELSE Append(colorMappings, NewMapping(colorInfo))
    /\ UNCHANGED << frames, isLoading, error, currentFrameIndex, isPlaying, colorPalette,
                    remappedFrames, pending, args, ret, zoomLevel >>

\* updateColorMapping without the validation of its argument
updateColorMapping_unvalidated(newColor) ==
    /\ Len(frames) > 0
    /\ selectedColor # null
    /\ call' = [op |-> "updateColorMapping", arg |-> newColor]
    /\ UNCHANGED << frames, isLoading, error, currentFrameIndex, isPlaying, colorPalette,
                    selectedColor, pending, args, ret, zoomLevel >>
    /\ hist' = HistAfterUpdate(newColor)
    /\ LET newRgb == hexToRgb(newColor)
           updatedMappings == UpdateMappings(colorMappings, selectedColor[1].color,
                                             newColor, newRgb)
           newRemappedFrames == remapFramesColors(frames, updatedMappings)
       IN  /\ colorMappings' = updatedMappings
           /\ IF newRemappedFrames.ok
              THEN /\ remappedFrames' = newRemappedFrames.val
                   /\ console' = << >>
              ELSE /\ console' = << "uncaught" >>
                   /\ UNCHANGED remappedFrames

\* updateColorMapping, from the colour picker or the text input of the selected colour
updateColorMapping(newColor) ==
    /\ Len(frames) > 0
    /\ selectedColor # null
    /\ call' = [op |-> "updateColorMapping", arg |-> newColor]
    /\ UNCHANGED << frames, isLoading, error, currentFrameIndex, isPlaying, colorPalette,
                    selectedColor, pending, args, ret, zoomLevel >>
    /\ hist' = HistAfterUpdate(validateHexColor(newColor))
    /\ LET validatedColor == validateHexColor(newColor)
           newRgb == hexToRgb(validatedColor)
           updatedMappings == UpdateMappings(colorMappings, selectedColor[1].color,
                                             validatedColor, newRgb)
           newRemappedFrames == remapFramesColors(frames, updatedMappings)
       IN  IF validatedColor = null
           THEN /\ console' = << "warn" >>
                /\ UNCHANGED << colorMappings, remappedFrames >>
           ELSE /\ colorMappings' = updatedMappings
                /\ IF newRemappedFrames.ok
                   THEN /\ remappedFrames' = newRemappedFrames.val
                        /\ console' = << >>
                   ELSE /\ console' = << "uncaught" >>
                        /\ UNCHANGED remappedFrames

\* removeColorMapping, from the remove button of an entry of the mapping list
removeColorMapping(originalColor) ==
    /\ Len(frames) > 0
    /\ call' = [op |-> "removeColorMapping", arg |-> originalColor]
    /\ hist' = IF hist.stage = "updated" /\ hist.color = originalColor
               THEN [hist EXCEPT !.stage = "removed"] ELSE NoSequence
    /\ UNCHANGED << frames, isLoading, error, currentFrameIndex, isPlaying, colorPalette,
                    pending, args, ret, zoomLevel >>
    /\ LET updatedMappings == FilterMappings(colorMappings, originalColor)
           newRemappedFrames == remapFramesColors(frames, updatedMappings)
       IN  /\ colorMappings' = updatedMappings
           /\ selectedColor' = IF selectedColor # null /\ selectedColor[1].color = originalColor
                               THEN null ELSE selectedColor
           /\ IF newRemappedFrames.ok
              THEN /\ remappedFrames' = newRemappedFrames.val
                   /\ console' = << >>
              ELSE /\ console' = << "uncaught" >>
                   /\ UNCHANGED remappedFrames

\* the onClick of the Reset All button
resetAll ==
    /\ Len(frames) > 0
    /\ Len(colorMappings) > 0
    /\ call' = [op |-> "resetAll", arg |-> << >>]
    /\ console' = << >>
    /\ colorMappings' = << >>
    /\ remappedFrames' = CopyFrames(frames)
    /\ hist' = NoSequence
    /\ UNCHANGED << frames, isLoading, error, currentFrameIndex, isPlaying, colorPalette,
                    selectedColor, pending, args, ret, zoomLevel >>

\* the onClick of the Reset to Original Color button, rendered while the entry of
\* the selected colour has a newColor other than the selected colour's key
resetToOriginalColor ==
    /\ selectedColor # null
    /\ \E j \in 1..Len(colorMappings) :
          /\ colorMappings[j].originalColor = selectedColor[1].color
          /\ colorMappings[j].newColor # selectedColor[1].color
    /\ updateColorMapping(selectedColor[1].color)

\* the handlers of the mapping editor and the upload, the animation left aside
Next ==
    \/ (\E file \in Files : handleFileChange(file)) /\ UNCHANGED << anim, canvas >>
    \/ parseGifFile /\ UNCHANGED << anim, canvas >>
    \/ (\E i \in 1..Len(colorPalette) : handleColorSelect(colorPalette[i]))
          /\ UNCHANGED << anim, canvas >>
    \/ (\E newColor \in HexInputs : updateColorMapping(newColor)) /\ UNCHANGED << anim, canvas >>
    \/ (\E j \in 1..Len(colorMappings) :
            removeColorMapping(colorMappings[j].originalColor)) /\ UNCHANGED << anim, canvas >>
    \/ resetAll /\ UNCHANGED << anim, canvas >>
    \/ resetToOriginalColor /\ UNCHANGED << anim, canvas >>

Spec == Init /\ [][Next]_vars

-----------------------------------------------------------------------------
(* The animation: the effect of App.tsx:286-318 and the controls that restart it. *)
(* Timestamps are kept relative: lastTimestamp is 0 until the closure's first     *)
(* callback and 1 afterwards, and a callback is given the time elapsed since the  *)
(* previous one.  Delays and elapsed times are in display refresh periods.        *)

\* the longest time between two animation-frame callbacks
MaxElapsed == 2

\* three frames of one red pixel, shown for 2, 3 and 2 periods
AnimThreeFrames ==
    << GifFrame(1, 1, 0, 2, << 0 >>, << Red >>, undefined),
       GifFrame(1, 1, 0, 3, << 0 >>, << Red >>, undefined),
       GifFrame(1, 1, 0, 2, << 0 >>, << Red >>, undefined) >>

\* one frame of one red pixel
AnimOneFrame == << GifFrame(1, 1, 0, 2, << 0 >>, << Red >>, undefined) >>

AnimFiles ==
    { [type |-> "image/gif", decoded |-> [ok |-> TRUE, val |-> g]] :
        g \in { AnimThreeFrames, AnimOneFrame } }

\* e.target.value of the zoom slider
ZoomLevels == { 3, 4 }

\* the body of the animation effect: it returns early without frames or when
\* paused, and otherwise requests the first callback of a new closure
StartAnimation ==
    IF Len(frames') = 0 \/ ~isPlaying' THEN NoAnimation
    ELSE [scheduled |-> TRUE, frames |-> frames', remappedFrames |-> remappedFrames',
          currentFrameIndex |-> currentFrameIndex',
          lastTimestamp |-> 0, accumulatedTime |-> 0, due |-> FALSE, late |-> FALSE]

\* renderFrame(frameIndex) of the render whose frames and remapped frames are fs
\* and rfs: what the canvases show after it
renderFrame(frameIndex, fs, rfs) ==
    IF Len(fs) = 0 THEN canvas
    ELSE [canvas EXCEPT
            !.frameIndex = frameIndex,
            !.original = fs[frameIndex + 1].patch,
            !.remapped = IF Len(rfs) > 0 THEN rfs[frameIndex + 1].patch
                         ELSE canvas.remapped]

\* the body of the canvas-size effect: it sizes the canvases and renders frame 0
InitCanvas ==
    IF Len(frames') = 0 THEN [canvas EXCEPT !.due = FALSE]
    ELSE [renderFrame(0, frames', remappedFrames') EXCEPT !.due = FALSE]

\* the handler of this step called setRemappedFrames or setFrames with a new array,
\* which gives renderFrame a new identity
NewRenderFrame ==
    \/ call'.op = "resetAll"
    \/ call'.op \in { "updateColorMapping", "removeColorMapping" } /\ console' = << >>
    \/ call'.op = "parseGifFile" /\ pending[1].decoded.ok

\* a dependency of the animation effect changes in this step
DepsChanged ==
    \/ NewRenderFrame
    \/ currentFrameIndex' # currentFrameIndex
    \/ isPlaying' # isPlaying

\* a dependency of the canvas-size effect changes in this step
CanvasDepsChanged ==
    \/ NewRenderFrame
    \/ zoomLevel' # zoomLevel

\* the commit after a click or an input event: the effects are flushed with it, so
\* the old closure's callback is cancelled and the effects run again
CommitSync ==
    /\ anim' = IF DepsChanged \/ anim.due THEN StartAnimation ELSE anim
    /\ canvas' = IF CanvasDepsChanged \/ canvas.due THEN InitCanvas ELSE canvas

\* the commit after an update made outside an event handler: the effect runs
\* later, and until then the old closure's callback stays requested
CommitDeferred ==
    /\ anim' = [anim EXCEPT !.due = anim.due \/ DepsChanged]
    /\ canvas' = [canvas EXCEPT !.due = canvas.due \/ CanvasDepsChanged]

\* the effects that are due after a deferred commit: the cleanup of the animation
\* effect and its next run, the canvas-size effect
flushEffects ==
    /\ anim.due \/ canvas.due
    /\ call' = [op |-> "useEffect", arg |-> << >>]
    /\ console' = << >>
    /\ UNCHANGED << frames, isLoading, error, currentFrameIndex, isPlaying, colorPalette,
                    colorMappings, selectedColor, remappedFrames, pending, args, ret,
                    hist, zoomLevel >>
    /\ anim' = IF anim.due THEN StartAnimation ELSE anim
    /\ canvas' = IF canvas.due THEN InitCanvas ELSE canvas

\* animate(timestamp), the callback a closure of the effect has requested; a
\* closure whose index has no frame throws before it requests the next callback.
\* After a deferred commit at most one callback of the old closure runs before the
\* effects are flushed.
animate(elapsed) ==
    /\ anim.scheduled
    /\ ~anim.late
    /\ LET deltaTime == IF anim.lastTimestamp = 0 THEN 0 ELSE elapsed
           accumulatedTime == anim.accumulatedTime + deltaTime
           i == anim.currentFrameIndex
       IN  IF i >= Len(anim.frames)
           THEN /\ call' = [op |-> "animate",
                            arg |-> [deltaTime |-> deltaTime, advanced |-> FALSE]]
                /\ console' = << "uncaught" >>
                /\ anim' = [anim EXCEPT !.scheduled = FALSE, !.lastTimestamp = 1,
                                        !.late = anim.due]
                /\ UNCHANGED << currentFrameIndex, canvas >>
           ELSE IF accumulatedTime >= anim.frames[i + 1].delay
           THEN LET nextFrameIndex == (i + 1) % Len(anim.frames)
                IN  /\ call' = [op |-> "animate",
                                arg |-> [deltaTime |-> deltaTime, advanced |-> TRUE]]
                    /\ console' = << >>
                    /\ currentFrameIndex' = nextFrameIndex
                    /\ anim' = [anim EXCEPT
                                  !.lastTimestamp = 1,
                                  !.accumulatedTime = 0,
                                  !.due = anim.due \/ nextFrameIndex # currentFrameIndex,
                                  !.late = anim.due]
                    /\ canvas' = renderFrame(nextFrameIndex, anim.frames,
                                             anim.remappedFrames)
           ELSE /\ call' = [op |-> "animate",
                            arg |-> [deltaTime |-> deltaTime, advanced |-> FALSE]]
                /\ console' = << >>
                /\ anim' = [anim EXCEPT !.lastTimestamp = 1,
                                        !.accumulatedTime = accumulatedTime,
                                        !.late = anim.due]
                /\ UNCHANGED << currentFrameIndex, canvas >>
    /\ UNCHANGED << frames, isLoading, error, isPlaying, colorPalette, colorMappings,
                    selectedColor, remappedFrames, pending, args, ret, hist, zoomLevel >>

\* the onClick of a frame of the unrolled view
frameClick(index) ==
    /\ call' = [op |-> "frameClick", arg |-> index]
    /\ console' = << >>
    /\ currentFrameIndex' = index
    /\ hist' = NoSequence
    /\ UNCHANGED << frames, isLoading, error, isPlaying, colorPalette, colorMappings,
                    selectedColor, remappedFrames, pending, args, ret, zoomLevel >>

togglePlayPause ==
    /\ Len(frames) > 0
    /\ call' = [op |-> "togglePlayPause", arg |-> << >>]
    /\ console' = << >>
    /\ isPlaying' = ~isPlaying
    /\ hist' = NoSequence
    /\ UNCHANGED << frames, isLoading, error, currentFrameIndex, colorPalette,
                    colorMappings, selectedColor, remappedFrames, pending, args, ret,
                    zoomLevel >>

handleZoomChange(value) ==
    /\ Len(frames) > 0
    /\ call' = [op |-> "handleZoomChange", arg |-> value]
    /\ console' = << >>
    /\ zoomLevel' = value
    /\ hist' = NoSequence
    /\ UNCHANGED << frames, isLoading, error, currentFrameIndex, isPlaying, colorPalette,
                    colorMappings, selectedColor, remappedFrames, pending, args, ret >>

\* the user's actions on a loaded animation and the uploads: React events, whose
\* effects are flushed with the commit
userEvent ==
    \/ \E file \in AnimFiles : handleFileChange(file)
    \/ \E i \in 1..Len(colorPalette) : handleColorSelect(colorPalette[i])
    \/ \E newColor \in HexInputs : updateColorMapping(newColor)
    \/ \E j \in 1..Len(colorMappings) : removeColorMapping(colorMappings[j].originalColor)
    \/ resetAll
    \/ \E index \in 0..(Len(frames) - 1) : frameClick(index)
    \/ togglePlayPause
    \/ \E value \in ZoomLevels : handleZoomChange(value)

NextAnim ==
    \/ userEvent /\ CommitSync
    \/ parseGifFile /\ CommitDeferred
    \/ \E elapsed \in 1..MaxElapsed : animate(elapsed)
    \/ flushEffects

SpecAnim == Init /\ [][NextAnim]_vars

\* the callbacks keep firing and the deferred effects are run
SpecAnimFair ==
    /\ SpecAnim
    /\ WF_vars(\E elapsed \in 1..MaxElapsed : animate(elapsed))
    /\ WF_vars(flushEffects)

-----------------------------------------------------------------------------
(* Direct calls of the pure helpers, on every input within the bounds *)

\* the largest number of pixels, over all frames, of a generated frame set
MaxTotalPixels == 3

\* colour tables, pixel indices and transparent indices of the generated frames:
\* index 1 has no entry in the one-colour table
ColorTables == { << Red, Green >>, << Green, Red >>, << Red >> }
PixelIndices == { 0, 1 }
TransparentIndices == { undefined, 1 }

\* the decoded frames of k pixels
FramesOfSize(k) ==
    { GifFrame(k, 1, 0, 100, pixels, table, transparentIndex) :
        pixels \in [1..k -> PixelIndices], table \in ColorTables,
        transparentIndex \in TransparentIndices }

RECURSIVE FrameSets(_)
\* the frame sets of at most n pixels in total, every frame with a pixel or more
FrameSets(n) ==
    { << >> } \cup
    UNION { { << frame >> \o rest : frame \in FramesOfSize(k), rest \in FrameSets(n - k) } :
            k \in 1..n }

\* the palette entry the extractor makes of a colour-table triple
ColorInfo(triple) ==
    LET rgb == Rgb(triple[1], triple[2], triple[3], "decoder")
    IN  [color |-> colorKey(rgb), count |-> 1, rgb |-> rgb]

\* the mapping of a colour after select and an update to newColor
MappingTo(triple, newColor) ==
    UpdateMappings(<< NewMapping(ColorInfo(triple)) >>, ColorInfo(triple).color,
                   validateHexColor(newColor), hexToRgb(validateHexColor(newColor)))[1]

\* mapping entries as the handlers build them: red selected, red to green,
\* green to blue
MappingEntries ==
    { NewMapping(ColorInfo(Red)),
      MappingTo(Red, << "0", "F", "0" >>),
      MappingTo(Green, << "#", "0", "0", "0", "0", "f", "f" >>) }

\* the tables of those entries with one entry at most per original colour
MappingTables ==
    { << >> } \cup { << a >> : a \in MappingEntries }
    \cup { t \in MappingEntries \X MappingEntries : t[1].originalColor # t[2].originalColor }

\* the component's state while a helper is called directly
Idle ==
    /\ frames = << >>
    /\ isLoading = FALSE
    /\ error = null
    /\ currentFrameIndex = 0
    /\ isPlaying = FALSE
    /\ colorPalette = << >>
    /\ colorMappings = << >>
    /\ selectedColor = null
    /\ remappedFrames = << >>
    /\ pending = << >>
    /\ console = << >>
    /\ hist = NoSequence
    /\ zoomLevel = 3
    /\ anim = NoAnimation
    /\ canvas = BlankCanvas

IdleUnchanged ==
    UNCHANGED << frames, isLoading, error, currentFrameIndex, isPlaying, colorPalette,
                 colorMappings, selectedColor, remappedFrames, pending, console, args,
                 hist, zoomLevel, anim, canvas >>

InitRemap ==
    /\ Idle
    /\ call = [op |-> "none", arg |-> << >>]
    /\ args \in { [originalFrames |-> F, mappings |-> M] :
                    F \in FrameSets(MaxTotalPixels), M \in MappingTables }
    /\ ret = << >>

\* remapFramesColors(originalFrames, mappings)
callRemap ==
    /\ ret = << >>
    /\ call' = [op |-> "remapFramesColors", arg |-> << >>]
    /\ ret' = << remapFramesColors(args.originalFrames, args.mappings) >>
    /\ IdleUnchanged

SpecRemap == InitRemap /\ [][callRemap]_vars

InitExtract ==
    /\ Idle
    /\ call = [op |-> "none", arg |-> << >>]
    /\ args \in { [gifFrames |-> F] : F \in FrameSets(MaxTotalPixels) }
    /\ ret = << >>

\* extractColorPalette(gifFrames)
callExtract ==
    /\ ret = << >>
    /\ call' = [op |-> "extractColorPalette", arg |-> << >>]
    /\ ret' = << extractColorPalette(args.gifFrames) >>
    /\ IdleUnchanged

SpecExtract == InitExtract /\ [][callExtract]_vars

-----------------------------------------------------------------------------
(* Direct calls of the hex helpers, on every string within the bounds *)

\* the longest generated string
MaxHexLen == 7

\* the characters of the generated strings: the prefix, a digit, a lower-case and
\* an upper-case hex letter, a letter that is no hex digit
HexChars == { "#", "0", "f", "F", "g" }

\* every string of at most n of those characters
HexStrings(n) == UNION { [1..k -> HexChars] : k \in 0..n }

InitHex ==
    /\ Idle
    /\ call = [op |-> "none", arg |-> << >>]
    /\ args \in HexStrings(MaxHexLen)
    /\ ret = << >>

\* validateHexColor(color)
callValidate ==
    /\ ret = << >>
    /\ call' = [op |-> "validateHexColor", arg |-> << >>]
    /\ ret' = << validateHexColor(args) >>
    /\ IdleUnchanged

\* hexToRgb(hex)
callHexToRgb ==
    /\ ret = << >>
    /\ call' = [op |-> "hexToRgb", arg |-> << >>]
    /\ ret' = << hexToRgb(args) >>
    /\ IdleUnchanged

NextHex == callValidate \/ callHexToRgb

SpecHex == InitHex /\ [][NextHex]_vars

-----------------------------------------------------------------------------
(* Properties *)

\* same number of frames, and per frame the same dims and the same patch bytes
ValueEqual(A, B) ==
    /\ Len(A) = Len(B)
    /\ \A k \in 1..Len(A) : A[k].dims = B[k].dims /\ A[k].patch = B[k].patch

\* the four patch bytes of pixel i (1-based) of a frame
PixelBytes(frame, i) == SubSeq(frame.patch, 4 * i - 3, 4 * i)

\* the positions << k, i >> of the pixels of a frame set that are not transparent
VisiblePixels(fs) ==
    { pos \in UNION { { << k, i >> : i \in 1..Len(fs[k].pixels) } : k \in 1..Len(fs) } :
        fs[pos[1]].pixels[pos[2]] # fs[pos[1]].transparentIndex }

\* the pixel at a position has an entry in its frame's colour table
HasColor(fs, pos) == InTable(fs[pos[1]].colorTable, fs[pos[1]].pixels[pos[2]])

\* the colour-table entry of the pixel at a position
ColorAt(fs, pos) == fs[pos[1]].colorTable[fs[pos[1]].pixels[pos[2]] + 1]

\* C1: in every reachable state the stored remapped frames are value-equal
\* (length, dims, patch bytes) to remapFramesColors(frames, colorMappings).
C1_RemappedFollowsTable ==
    LET r == remapFramesColors(frames, colorMappings)
    IN  r.ok /\ ValueEqual(remappedFrames, r.val)

\* the RGB a non-transparent pixel of colour rgb must show under a mapping table:
\* newRgb of the entry for its key in the original table, else its own RGB
Expected(mappings, rgb) ==
    IF \E j \in 1..Len(mappings) : mappings[j].originalColor = colorKey(rgb)
    THEN (CHOOSE m \in { mappings[j] : j \in 1..Len(mappings) } :
             m.originalColor = colorKey(rgb)).newRgb.val
    ELSE rgb.val

\* the 2x2 scenario: red mapped to #0000ff
Scenario2x2 ==
    remapFramesColors(Gif2x2, << MappingTo(Red, << "#", "0", "0", "0", "0", "f", "f" >>) >>)

\* C2: whenever remapFramesColors(F, M) returns, every non-transparent pixel that
\* has a colour in the original table shows the RGB its original colour is mapped
\* to by M (one application, no chaining), or its original RGB, with alpha 255;
\* with M empty every patch equals the original; the 2x2 scenario gives the
\* stated patch.
C2_RemapPixels ==
    /\ Scenario2x2.ok
    /\ Scenario2x2.val[1].patch =
          << 0, 0, 255, 255,  0, 0, 255, 255,  0, 255, 0, 255,  0, 255, 0, 255 >>
    /\ (ret # << >> /\ ret[1].ok) =>
          LET F == args.originalFrames
              M == args.mappings
              out == ret[1].val
          IN  /\ Len(out) = Len(F)
              /\ \A k \in 1..Len(F) : Len(out[k].patch) = 4 * Len(F[k].pixels)
              /\ \A pos \in VisiblePixels(F) :
                    HasColor(F, pos) =>
                       PixelBytes(out[pos[1]], pos[2])
                          = Expected(M, ColorAt(F, pos)) \o << 255 >>
              /\ M = << >> => \A k \in 1..Len(F) : out[k].patch = F[k].patch

\* a chained table applied to a red pixel: red becomes green, not blue
C2_Witness ==
    /\ ret # << >> /\ ret[1].ok
    /\ Len(args.mappings) = 2
    /\ args.mappings[1].originalColor = colorKey(Rgb(255, 0, 0, "decoder"))
    /\ args.mappings[1].newRgb.val = Green
    /\ args.mappings[2].originalColor = colorKey(Rgb(0, 255, 0, "decoder"))
    /\ args.mappings[2].newRgb.val = << 0, 0, 255 >>
    /\ \E pos \in VisiblePixels(args.originalFrames) :
          /\ HasColor(args.originalFrames, pos)
          /\ ColorAt(args.originalFrames, pos).val = Red
          /\ PixelBytes(ret[1].val[pos[1]], pos[2]) = << 0, 255, 0, 255 >>

\* C3: whenever remapFramesColors(F, M) returns, every pixel whose index is the
\* frame's transparentIndex and whose alpha byte is 0 in F has alpha byte 0 in
\* the result.
C3_TransparencyPreserved ==
    (ret # << >> /\ ret[1].ok) =>
        \A k \in 1..Len(args.originalFrames) :
            LET frame == args.originalFrames[k]
            IN  \A i \in 1..Len(frame.pixels) :
                    (frame.pixels[i] = frame.transparentIndex /\ frame.patch[4 * i] = 0)
                        => ret[1].val[k].patch[4 * i] = 0

\* a table that maps green applied to a frame whose transparent slot holds green
C3_Witness ==
    /\ ret # << >> /\ ret[1].ok
    /\ \E j \in 1..Len(args.mappings) :
          /\ args.mappings[j].originalColor = colorKey(Rgb(0, 255, 0, "decoder"))
          /\ args.mappings[j].newRgb.val # Green
    /\ \E k \in 1..Len(args.originalFrames) :
          LET frame == args.originalFrames[k]
          IN  /\ frame.transparentIndex = 1
              /\ frame.colorTable = << Rgb(255, 0, 0, "decoder"), Rgb(0, 255, 0, "decoder") >>
              /\ \E i \in 1..Len(frame.pixels) :
                    frame.pixels[i] = 1 /\ ret[1].val[k].patch[4 * i] = 0

\* C4: the frames remapFramesColors returns share no storage with its input:
\* frame objects, patch, colour table, its RGB triples, pixels and dims are all
\* allocations of their own.
C4_NoSharedStorage ==
    (ret # << >> /\ ret[1].ok) =>
        \A k \in 1..Len(ret[1].val) :
            LET frame == ret[1].val[k]
            IN  /\ \A part \in DOMAIN frame.heap : frame.heap[part] # "decoder"
                /\ \A c \in 1..Len(frame.colorTable) : frame.colorTable[c].obj # "decoder"

\* C5: no two entries of the mapping table have the same originalColor.
C5_MappingUniqueness ==
    \A i, j \in 1..Len(colorMappings) :
        i # j => colorMappings[i].originalColor # colorMappings[j].originalColor

\* a colour that already has an entry was selected again
C5_Witness ==
    /\ call.op = "handleColorSelect"
    /\ Len(colorMappings) >= 2
    /\ call.arg = colorMappings[1].originalColor
    /\ colorMappings[1].newColor # colorMappings[1].originalColor

\* C6: a pixel index without a colour-table entry never makes palette
\* extraction fail (it is to be rendered as black with alpha 0 instead).
C6_OutOfRangeIsLenient ==
    ret # << >> => ret[1].ok

\* what a hex string must look like to pass validation: an optional # and then
\* three or six hex digits
WellFormedHex(s) ==
    LET digits == IF Len(s) > 0 /\ s[1] = "#" THEN Tail(s) ELSE s
    IN  /\ Len(digits) \in { 3, 6 }
        /\ \A i \in 1..Len(digits) :
              digits[i] \in { "0", "1", "2", "3", "4", "5", "6", "7", "8", "9",
                              "a", "b", "c", "d", "e", "f", "A", "B", "C", "D", "E", "F" }

\* C7: updateColorMapping with a hex string that fails validation changes neither
\* the mapping table nor the remapped frames, the selected colour or the original
\* frames; it writes a warning and nothing is thrown.
C7_InvalidHexIsNoOp ==
    [][(call'.op = "updateColorMapping" /\ ~WellFormedHex(call'.arg)) =>
          /\ colorMappings' = colorMappings
          /\ remappedFrames' = remappedFrames
          /\ selectedColor' = selectedColor
          /\ frames' = frames
          /\ console' = << "warn" >>]_vars

\* an invalid hex string was submitted while the selected colour had an entry
C7_Witness ==
    /\ call.op = "updateColorMapping"
    /\ ~WellFormedHex(call.arg)
    /\ console = << "warn" >>
    /\ selectedColor # null
    /\ HasMapping(colorMappings, selectedColor[1].color)

\* the keys of the colours of the non-transparent pixels of a frame set
VisibleColors(fs) ==
    { colorKey(ColorAt(fs, pos)) : pos \in { q \in VisiblePixels(fs) : HasColor(fs, q) } }

\* C8: in every reachable state palette, mapping table and remapped frames
\* belong to the animation the published frames belong to: the palette holds
\* exactly the visible colours of the frames, and the remapped frames have the
\* frames' dims and pixels.
C8_LoadIsAtomic ==
    /\ { colorPalette[i].color : i \in 1..Len(colorPalette) } = VisibleColors(frames)
    /\ Len(remappedFrames) = Len(frames)
    /\ \A k \in 1..Len(frames) :
          /\ remappedFrames[k].dims = frames[k].dims
          /\ remappedFrames[k].pixels = frames[k].pixels

\* C9: when decoding an uploaded file fails, an error message is set and frames,
\* palette, mapping table, selected colour and remapped frames stay as they were.
C9_DecodeFailureKeepsState ==
    [][(pending # << >> /\ pending' = << >> /\ ~pending[1].decoded.ok) =>
          /\ error' = << "Failed to parse GIF file" >>
          /\ UNCHANGED << frames, colorPalette, colorMappings, selectedColor,
                          remappedFrames >>]_vars

\* a failed decode with an animation loaded and a changed mapping in the table
C9_Witness ==
    /\ call.op = "parseGifFile"
    /\ error = << "Failed to parse GIF file" >>
    /\ Len(frames) > 0
    /\ selectedColor # null
    /\ \E j \in 1..Len(colorMappings) :
          colorMappings[j].newColor # colorMappings[j].originalColor

\* C10: whenever extractColorPalette(frames) returns, its result is the histogram
\* of the colours of the non-transparent pixels: one entry per colour key that
\* occurs, no other entry, keys pairwise distinct, each count the number of such
\* pixels over all frames, each rgb the triple of the key, counts non-increasing.
C10_PaletteIsHistogram ==
    (ret # << >> /\ ret[1].ok) =>
        LET F == args.gifFrames
            palette == ret[1].val
        IN  /\ \A pos \in VisiblePixels(F) : HasColor(F, pos)
            /\ { palette[i].color : i \in 1..Len(palette) } = VisibleColors(F)
            /\ \A i, j \in 1..Len(palette) : i # j => palette[i].color # palette[j].color
            /\ \A i \in 1..Len(palette) :
                  /\ palette[i].count =
                        Cardinality({ pos \in VisiblePixels(F) :
                                        colorKey(ColorAt(F, pos)) = palette[i].color })
                  /\ colorKey(palette[i].rgb) = palette[i].color
            /\ \A i \in 1..(Len(palette) - 1) : palette[i].count >= palette[i + 1].count

\* a palette over two frames: the commoner colour is counted across both frames,
\* under a different index in each, and precedes the colour that was met first
C10_Witness ==
    /\ ret # << >> /\ ret[1].ok
    /\ Len(args.gifFrames) = 2
    /\ Len(ret[1].val) = 2
    /\ ret[1].val[1].count = 2
    /\ ret[1].val[2].count = 1
    /\ colorKey(ColorAt(args.gifFrames, << 1, 1 >>)) = ret[1].val[2].color
    /\ \E i \in 1..Len(args.gifFrames[1].pixels) :
          /\ colorKey(ColorAt(args.gifFrames, << 1, i >>)) = ret[1].val[1].color
          /\ colorKey(ColorAt(args.gifFrames, << 2, 1 >>)) = ret[1].val[1].color
          /\ args.gifFrames[1].pixels[i] # args.gifFrames[2].pixels[1]


\* the hex digits of a string, without the leading # when it has one
DigitsOf(s) == IF Len(s) > 0 /\ s[1] = "#" THEN Tail(s) ELSE s

\* the six digits a well-formed hex string stands for: each digit of the
\* three-digit form written twice
SixDigits(s) ==
    LET d == DigitsOf(s)
    IN  IF Len(d) = 3 THEN << d[1], d[1], d[2], d[2], d[3], d[3] >> ELSE d

\* C11: validateHexColor accepts exactly the strings made of an optional # and
\* three or six hex digits of any case and returns # and six digits, the case
\* kept and each digit of the three-digit form doubled; every other string gives
\* null, and nothing is thrown.
C11_ValidateHex ==
    /\ call.op = "validateHexColor" =>
          ret = << IF WellFormedHex(args) THEN << "#" >> \o SixDigits(args) ELSE null >>
    /\ validateHexColor(<< "a", "b", "c" >>) = << "#", "a", "a", "b", "b", "c", "c" >>
    /\ validateHexColor(<< "#", "1", "2", "3", "4" >>) = null

\* a three-digit string of mixed case without # was normalised
C11_Witness ==
    /\ call.op = "validateHexColor"
    /\ args = << "F", "0", "f" >>
    /\ ret = << << "#", "F", "F", "0", "0", "f", "f" >> >>

\* the triple of the two-digit components of six hex digits
ParsedTriple(d) ==
    << 16 * HexValue[d[1]] + HexValue[d[2]],
       16 * HexValue[d[3]] + HexValue[d[4]],
       16 * HexValue[d[5]] + HexValue[d[6]] >>

\* C12: hexToRgb returns, for a string of three or six hex digits with or without
\* #, the triple of its (doubled, for three digits) components and [0,0,0] for
\* every other string; so a string validateHexColor accepts has the same triple
\* as its validated form.
C12_HexToRgb ==
    /\ call.op = "hexToRgb" =>
          /\ ret[1].val = IF WellFormedHex(args) THEN ParsedTriple(SixDigits(args))
                          ELSE << 0, 0, 0 >>
          /\ WellFormedHex(args) =>
                hexToRgb(validateHexColor(args)).val = ret[1].val
    /\ hexToRgb(<< "#", "0", "f", "0" >>).val = << 0, 255, 0 >>

\* a three-digit string was parsed with its digits doubled
C12_Witness ==
    /\ call.op = "hexToRgb"
    /\ args = << "#", "0", "F", "f" >>
    /\ ret[1].val = << 0, 255, 255 >>


\* C13: when colour c has no mapping, selecting c, updating it to a valid hex and
\* removing it leaves the mapping table as it was before the selection and the
\* remapped frames equal to remap(frames, that table): remap(frames, []) when the
\* table was empty.
C13_SelectUpdateRemove ==
    hist.stage = "removed" =>
        /\ colorMappings = hist.before
        /\ LET r == remapFramesColors(frames, hist.before)
           IN  r.ok /\ ValueEqual(remappedFrames, r.val)


\* the entry select(c) appends for a colour without one: c mapped to itself
Placeholder(colorInfo) ==
    [originalColor |-> colorInfo.color, originalRgb |-> colorInfo.rgb,
     newColor |-> colorInfo.color, newRgb |-> colorInfo.rgb]

\* some entry of the table has this original colour
HasEntry(mappings, color) ==
    \E j \in 1..Len(mappings) : mappings[j].originalColor = color

\* C14: select(c) leaves the mapping table unchanged when it has an entry for c,
\* and otherwise appends exactly the entry mapping c to itself at the end; remap
\* gives the same frames with that entry as without it.
C14_SelectAddsPlaceholder ==
    [][call'.op = "handleColorSelect" =>
          /\ selectedColor' # null
          /\ selectedColor'[1].color = call'.arg
          /\ IF HasEntry(colorMappings, call'.arg)
             THEN colorMappings' = colorMappings
             ELSE colorMappings' = Append(colorMappings, Placeholder(selectedColor'[1]))
          /\ LET without == remapFramesColors(frames, colorMappings)
                 with == remapFramesColors(frames, colorMappings')
             IN  /\ with.ok = without.ok
                 /\ with.ok => ValueEqual(with.val, without.val)]_vars


\* C16: updateColorMapping with a valid hex string changes only newColor and
\* newRgb of the entry whose originalColor is the selected colour: the length and
\* order of the table, originalColor and originalRgb of every entry, every other
\* entry, the original frames and the palette stay as they were.
C16_UpdateTouchesOneEntry ==
    [][(call'.op = "updateColorMapping" /\ WellFormedHex(call'.arg)) =>
          /\ Len(colorMappings') = Len(colorMappings)
          /\ \A j \in 1..Len(colorMappings) :
                /\ colorMappings'[j].originalColor = colorMappings[j].originalColor
                /\ colorMappings'[j].originalRgb = colorMappings[j].originalRgb
                /\ colorMappings[j].originalColor # selectedColor[1].color =>
                      colorMappings'[j] = colorMappings[j]
          /\ Cardinality({ j \in 1..Len(colorMappings) :
                             colorMappings'[j] # colorMappings[j] }) <= 1
          /\ frames' = frames
          /\ colorPalette' = colorPalette]_vars

\* a valid hex string was submitted for the selected colour while the table had
\* another entry as well, and the selected colour's entry took the new colour
C16_Witness ==
    /\ call.op = "updateColorMapping"
    /\ WellFormedHex(call.arg)
    /\ selectedColor # null
    /\ Len(colorMappings) >= 2
    /\ \E j \in 1..Len(colorMappings) :
          /\ colorMappings[j].originalColor = selectedColor[1].color
          /\ colorMappings[j].newRgb.val = hexToRgb(call.arg).val
          /\ colorMappings[j].newRgb.val # colorMappings[j].originalRgb.val


\* C17: in every reachable state both colour fields of every entry of the mapping
\* table are the rgb(r,g,b) keys of the entry's triples: originalColor is the key
\* of originalRgb and newColor is the key of newRgb.
C17_EntriesAreCanonical ==
    \A j \in 1..Len(colorMappings) :
        /\ colorMappings[j].originalColor = colorKey(colorMappings[j].originalRgb)
        /\ colorMappings[j].newColor = colorKey(colorMappings[j].newRgb)


\* C19: the Reset to Original Color button, offered when the entry of the selected
\* colour has a changed new colour, resets that entry: afterwards its newRgb is
\* its originalRgb, and every visible pixel of that colour shows in the remapped
\* frames the bytes it has in the original frames.
C19_ResetToOriginal ==
    [][(selectedColor # null /\ call'.op = "updateColorMapping"
          /\ call'.arg = selectedColor[1].color) =>
          /\ \A j \in 1..Len(colorMappings') :
                colorMappings'[j].originalColor = selectedColor[1].color =>
                    colorMappings'[j].newRgb.val = colorMappings'[j].originalRgb.val
          /\ \A pos \in VisiblePixels(frames) :
                (HasColor(frames, pos)
                   /\ colorKey(ColorAt(frames, pos)) = selectedColor[1].color) =>
                    PixelBytes(remappedFrames'[pos[1]], pos[2])
                        = PixelBytes(frames[pos[1]], pos[2])]_vars


\* C20: in every reachable state a selected colour has an entry in the mapping
\* table (so that an update with a valid hex string has an entry to change).
C20_SelectedHasEntry ==
    selectedColor # null => HasEntry(colorMappings, selectedColor[1].color)


\* C15: the animation callback moves the current frame index only from i to
\* (i+1) mod frameCount, only while playing and only when the accumulated time has
\* reached the delay of frame i, and it resets the accumulated time to 0 on that
\* advance; with a non-empty frame set the current frame index is always one of
\* 0..frameCount-1, after callbacks, frame clicks and loads.
C15_SchedulerAdvances ==
    [][/\ Len(frames') > 0 => currentFrameIndex' \in 0..(Len(frames') - 1)
       /\ (call'.op = "animate" /\ currentFrameIndex' # currentFrameIndex) =>
              /\ isPlaying
              /\ currentFrameIndex < Len(frames)
              /\ currentFrameIndex' = (currentFrameIndex + 1) % Len(frames)
              /\ anim.accumulatedTime + call'.arg.deltaTime
                    >= frames[currentFrameIndex + 1].delay
              /\ anim'.accumulatedTime = 0]_vars


\* the last step was an animation callback that advanced the frame
Advanced == call.op = "animate" /\ call.arg.advanced

\* the animation is playing a non-empty frame set at a frame it has
Playing == isPlaying /\ Len(frames) > 0 /\ currentFrameIndex < Len(frames)

\* C18: while playing with a non-empty frame set and callbacks firing with
\* advancing timestamps, the current frame eventually advances, also when nothing
\* but mapping updates, removals and zoom changes keep occurring between the
\* callbacks: again and again the animation advances, unless it is not playing or
\* some other event has just occurred.
C18_EventuallyAdvances ==
    []<>(\/ Advanced
         \/ ~Playing
         \/ call.op \notin { "animate", "useEffect", "updateColorMapping",
                             "removeColorMapping", "handleZoomChange" })


\* no effect is waiting to run
Settled == ~anim.due /\ ~canvas.due

\* C21: whenever the handlers and effects have settled, the frame last composited
\* onto the original and the remapped canvas is the frame at the current frame
\* index, after animation advances, loads, zoom changes, mapping updates and
\* removals and clicks on a frame of the unrolled view.
C21_CanvasShowsCurrentFrame ==
    (Settled /\ Len(frames) > 0 /\ currentFrameIndex < Len(frames)) =>
        /\ canvas.frameIndex = currentFrameIndex
        /\ canvas.original = frames[currentFrameIndex + 1].patch
        /\ canvas.remapped = remappedFrames[currentFrameIndex + 1].patch

====
